---- MODULE Spec2Model ----
(***************************************************************************)
(* Server-side SEO meta tag injection (uni10).                             *)
(*                                                                         *)
(* Documents, paths and tag values are strings and the regular             *)
(* expressions of the source are matched character by character, so that   *)
(* letter case, attribute order, white space and the self-closing slash    *)
(* are decided here the way the JavaScript engine decides them.            *)
(***************************************************************************)
EXTENDS Integers, Sequences, FiniteSets, TLC

(***************************************************************************)
(* JavaScript string primitives                                            *)
(***************************************************************************)

\* the character of s at index i (1-based), "" past either end
CharAt(s, i) == IF i >= 1 /\ i <= Len(s) THEN SubSeq(s, i, i) ELSE ""

\* F(v), with v evaluated once however often F uses its argument
Once(F(_), v) == CHOOSE r \in {F(x) : x \in {v}} : TRUE

\* the characters the regular expression class \s matches
WhiteSpace == {" ", "\n", "\t", "\r"}

UpperToLower ==
  [c \in {"A","B","C","D","E","F","G","H","I","J","K","L","M",
          "N","O","P","Q","R","S","T","U","V","W","X","Y","Z"} |->
     CASE c = "A" -> "a" [] c = "B" -> "b" [] c = "C" -> "c" [] c = "D" -> "d"
       [] c = "E" -> "e" [] c = "F" -> "f" [] c = "G" -> "g" [] c = "H" -> "h"
       [] c = "I" -> "i" [] c = "J" -> "j" [] c = "K" -> "k" [] c = "L" -> "l"
       [] c = "M" -> "m" [] c = "N" -> "n" [] c = "O" -> "o" [] c = "P" -> "p"
       [] c = "Q" -> "q" [] c = "R" -> "r" [] c = "S" -> "s" [] c = "T" -> "t"
       [] c = "U" -> "u" [] c = "V" -> "v" [] c = "W" -> "w" [] c = "X" -> "x"
       [] c = "Y" -> "y" [] c = "Z" -> "z"]

\* case folding of the i flag, one character ("" stays "")
LowerChar(c) == IF c \in DOMAIN UpperToLower THEN UpperToLower[c] ELSE c

\* case folding of the i flag, character by character (halving keeps the
\* evaluation shallow)
RECURSIVE LowerStr(_)
LowerStr(s) ==
  IF Len(s) <= 1 THEN LowerChar(s)
  ELSE LET h == Len(s) \div 2
       IN  LowerStr(SubSeq(s, 1, h)) \o LowerStr(SubSeq(s, h + 1, Len(s)))

\* least element of a non-empty set of indexes
MinOf(S) == CHOOSE i \in S : \A j \in S : i <= j

\* a literal of a pattern matches s at i; ci is the i flag
MatchLit(s, i, lit, ci) ==
  /\ i >= 1
  /\ i + Len(lit) - 1 <= Len(s)
  /\ LET t == SubSeq(s, i, i + Len(lit) - 1)
     IN  IF ci THEN LowerStr(t) = lit ELSE t = lit

\* end of the greedy run \s* starting at i
SkipWs(s, i) ==
  MinOf({j \in i..(Len(s) + 1) : CharAt(s, j) \notin WhiteSpace})

\* end of the greedy run [^c]* starting at i
SkipNot(s, i, c) ==
  MinOf({j \in i..(Len(s) + 1) : j > Len(s) \/ CharAt(s, j) = c})

\* String.prototype.indexOf, 1-based; 0 when absent
IndexOf(s, lit) ==
  LET M == {i \in 1..Len(s) : MatchLit(s, i, lit, FALSE)}
  IN  IF M = {} THEN 0 ELSE MinOf(M)

\* String.prototype.includes
Includes(s, lit) == IndexOf(s, lit) # 0

\* String.prototype.startsWith
StartsWith(s, lit) == MatchLit(s, 1, lit, FALSE)

\* v.replace('"', '&quot;'): without the g flag only the first quote is
\* replaced
EscapeQuotesFirstOnly(v) ==
  LET i == IndexOf(v, "\"")
  IN  IF i = 0 THEN v
      ELSE SubSeq(v, 1, i - 1) \o "&quot;" \o SubSeq(v, i + 1, Len(v))

\* v.replace(/"/g, '&quot;')
RECURSIVE EscapeQuotes(_)
EscapeQuotes(v) ==
  IF Len(v) <= 1 THEN (IF v = "\"" THEN "&quot;" ELSE v)
  ELSE LET h == Len(v) \div 2
       IN  EscapeQuotes(SubSeq(v, 1, h)) \o EscapeQuotes(SubSeq(v, h + 1, Len(v)))

\* the grave accent character
Backtick == SubSeq("`'", 1, 1)

\* the replacement patterns String.prototype.replace expands in a replacement
\* string: $$, $&, $ with a grave accent (the text before the match) and
\* $ with an apostrophe (the text after it); $n and $<name> stay literal,
\* since none of the patterns of this program has a capture group
RECURSIVE Expand(_, _, _, _)
Expand(repl, matched, before, after) ==
  IF SkipNot(repl, 1, "$") >= Len(repl) THEN repl
  ELSE IF Head(repl) = "$"
       THEN LET c == CharAt(repl, 2)
                rest == SubSeq(repl, 3, Len(repl))
            IN  CASE c = "$"  -> "$"     \o Expand(rest, matched, before, after)
                  [] c = "&"  -> matched \o Expand(rest, matched, before, after)
                  [] c = Backtick -> before \o Expand(rest, matched, before, after)
                  [] c = "'"  -> after   \o Expand(rest, matched, before, after)
                  [] OTHER    -> "$" \o Expand(Tail(repl), matched, before, after)
       ELSE LET d == SkipNot(repl, 1, "$")
            IN  SubSeq(repl, 1, d - 1)
                  \o Expand(SubSeq(repl, d, Len(repl)), matched, before, after)

\* s.replace(re, repl) once the leftmost match [i, j) of re is known
\* (i = 0: no match, s is returned)
ReplaceAt(s, i, j, repl) ==
  IF i = 0 THEN s
  ELSE LET before  == SubSeq(s, 1, i - 1)
           matched == SubSeq(s, i, j - 1)
           after   == SubSeq(s, j, Len(s))
       IN  before \o Expand(repl, matched, before, after) \o after

(***************************************************************************)
(* The regular expressions of the source                                   *)
(***************************************************************************)

\* /<meta\s+ATTR\s+content="[^"]*"\s*\/?>/i and the canonical link pattern,
\* anchored at i: the index after the match, 0 when there is none.  Each
\* quantifier is followed by a character outside its class, so the greedy
\* match is the only one.
TagMatchEnd(s, i, open, attr, valopen) ==
  IF ~MatchLit(s, i, open, TRUE) THEN 0
  ELSE LET a == i + Len(open)
           b == SkipWs(s, a)
       IN  IF b = a \/ ~MatchLit(s, b, attr, TRUE) THEN 0
           ELSE LET c == b + Len(attr)
                    d == SkipWs(s, c)
                IN  IF d = c \/ ~MatchLit(s, d, valopen, TRUE) THEN 0
                    ELSE LET e == d + Len(valopen)
                             f == SkipNot(s, e, "\"")
                         IN  IF f > Len(s) THEN 0
                             ELSE LET g == SkipWs(s, f + 1)
                                      h == IF CharAt(s, g) = "/" THEN g + 1 ELSE g
                                  IN  IF CharAt(s, h) = ">" THEN h + 1 ELSE 0

\* leftmost match of the tag pattern: its start, 0 when there is none
TagSearch(s, open, attr, valopen) ==
  LET M == {i \in 1..Len(s) :
              CharAt(s, i) = "<" /\ TagMatchEnd(s, i, open, attr, valopen) # 0}
  IN  IF M = {} THEN 0 ELSE MinOf(M)

\* s.replace(/<open\s+attr\s+valopen[^"]*"\s*\/?>/i, repl)
ReplaceTag(s, open, attr, valopen, repl) ==
  Once(LAMBDA i : IF i = 0 THEN s
                  ELSE ReplaceAt(s, i, TagMatchEnd(s, i, open, attr, valopen),
                                 repl),
       TagSearch(s, open, attr, valopen))

\* /<title>[^<]*<\/title>/ anchored at i (no i flag)
TitleMatchEnd(s, i) ==
  IF ~MatchLit(s, i, "<title>", FALSE) THEN 0
  ELSE LET e == SkipNot(s, i + 7, "<")
       IN  IF MatchLit(s, e, "</title>", FALSE) THEN e + 8 ELSE 0

TitleSearch(s) ==
  LET M == {i \in 1..Len(s) : CharAt(s, i) = "<" /\ TitleMatchEnd(s, i) # 0}
  IN  IF M = {} THEN 0 ELSE MinOf(M)

ReplaceTitle(s, repl) ==
  Once(LAMBDA i : IF i = 0 THEN s
                  ELSE ReplaceAt(s, i, TitleMatchEnd(s, i), repl),
       TitleSearch(s))

(***************************************************************************)
(* Slug extractor                                                          *)
(***************************************************************************)

\* extractProductSlug with the ^ anchor left out of the pattern
extractProductSlugUnanchored(pathname) ==
  LET i == IndexOf(pathname, "/products/")
  IN  IF i = 0 THEN ""
      ELSE LET e == MinOf({j \in (i + 10)..(Len(pathname) + 1) :
                             j > Len(pathname)
                               \/ CharAt(pathname, j) \in {"/", "?"}})
           IN  SubSeq(pathname, i + 10, e - 1)

\* pathname.match(/^\/products\/([^/?]+)/): the captured group; "" stands for
\* null (the group is never empty and both are falsy in `if (!slug)`)
extractProductSlug(pathname) ==
  IF ~StartsWith(pathname, "/products/") THEN ""
  ELSE LET e == MinOf({j \in 11..(Len(pathname) + 1) :
                         j > Len(pathname) \/ CharAt(pathname, j) \in {"/", "?"}})
       IN  SubSeq(pathname, 11, e - 1)

(***************************************************************************)
(* Products and the tag-set generator (utils/seoGenerator)                 *)
(***************************************************************************)

\* the site suffix of a product title
SiteSuffix == " | uni10"

\* The product records of the data store.  absent lists the optional
\* fields the record does not have.
Catalog ==
  [mug  |-> [name |-> "Blue Mug", slug |-> "blue-mug", id |-> "id1",
             description |-> "A \"blue\" mug", image |-> "/i/mug.png",
             keywords |-> "mug,\"blue\"", absent |-> {}],
   bare |-> [name |-> "Bare", slug |-> "bare", id |-> "id2",
             description |-> "Plain", image |-> "",
             keywords |-> "", absent |-> {"image", "keywords"}],
   deal |-> [name |-> "Deal", slug |-> "deal", id |-> "id3",
             description |-> "Save $$ on $& now", image |-> "/i/deal.png",
             keywords |-> "sale", absent |-> {}]]

ProductKeys == DOMAIN Catalog

\* generateProductSeoTags(product, baseUrl): the SeoTagSet of a product.
\* undef lists the fields whose value is undefined.
generateProductSeoTags(product, baseUrl) ==
  [title         |-> product.name \o SiteSuffix,
   description   |-> product.description,
   ogTitle       |-> product.name \o SiteSuffix,
   ogDescription |-> product.description,
   ogImage       |-> product.image,
   keywords      |-> product.keywords,
   canonicalUrl  |-> baseUrl \o "/products/" \o product.slug,
   undef         |-> (IF "image" \in product.absent THEN {"ogImage"} ELSE {})
                       \cup (IF "keywords" \in product.absent
                             THEN {"keywords"} ELSE {})]

\* createMetaTagsHtml(seoData): the block of tags of the insertion-only
\* variants
createMetaTagsHtml(seoData) ==
  "<title>" \o seoData.title \o "</title>\n"
    \o "<meta name=\"description\" content=\"" \o seoData.description \o "\" />\n"
    \o "<link rel=\"canonical\" href=\"" \o seoData.canonicalUrl \o "\" />\n"

(***************************************************************************)
(* The per-tag substitutions of injectMetaTags                             *)
(*                                                                         *)
(* A substitution state is [html, threw, writes]: the local variable html, *)
(* whether a TypeError has been thrown (the remaining steps are skipped),  *)
(* and the strings written so far, one record per write.                   *)
(***************************************************************************)

\* `<open attr valopen${v}" />`: the template literal of a meta or link tag
TagTemplate(open, attr, valopen, v) ==
  open \o " " \o attr \o " " \o valopen \o v \o "\" />"

\* seoData[field].replace(...) throws a TypeError on undefined
Throws(seoData, field) == field \in seoData.undef

\* `if (seoData.keywords)`: undefined and "" are falsy
Truthy(seoData, field) == field \notin seoData.undef /\ seoData[field] # ""

\* html = html.replace(/<title>[^<]*<\/title>/, `<title>${...}</title>`)
ReplaceTitleStep(st0, seoData) == Once(LAMBDA st :
  IF st.threw THEN st
  ELSE IF Throws(seoData, "title") THEN [st EXCEPT !.threw = TRUE]
  ELSE LET repl == "<title>" \o EscapeQuotes(seoData.title) \o "</title>"
       IN  [st EXCEPT !.html = ReplaceTitle(st.html, repl),
                      !.writes = Append(@, [tag |-> "title", mode |-> "replace",
                                            value |-> seoData.title,
                                            text |-> repl])],
  st0)

\* if (guard) html = html.replace(/<open\s+attr\s+valopen[^"]*"\s*\/?>/i, ...)
\* where guard is html.includes(attr), or TRUE for the description
ReplaceTagStep(st0, seoData, tag, always, open, attr, valopen, field) ==
  Once(LAMBDA st :
  IF st.threw THEN st
  ELSE IF ~(always \/ Includes(st.html, attr)) THEN st
  ELSE IF Throws(seoData, field) THEN [st EXCEPT !.threw = TRUE]
  ELSE LET repl == TagTemplate(open, attr, valopen, EscapeQuotes(seoData[field]))
       IN  [st EXCEPT !.html = ReplaceTag(st.html, open, attr, valopen, repl),
                      !.writes = Append(@, [tag |-> tag, mode |-> "replace",
                                            value |-> seoData[field],
                                            text |-> repl])],
  st0)

\* step 5: replace the keywords tag, or insert one before </head>
KeywordsStep(st0, seoData) == Once(LAMBDA st :
  IF st.threw \/ ~Truthy(seoData, "keywords") THEN st
  ELSE IF Includes(st.html, "name=\"keywords\"")
       THEN ReplaceTagStep(st, seoData, "keywords", TRUE, "<meta",
                           "name=\"keywords\"", "content=\"", "keywords")
  ELSE LET headClosingIndex == IndexOf(st.html, "</head>")
           text == "    " \o TagTemplate("<meta", "name=\"keywords\"", "content=\"",
                                         EscapeQuotes(seoData.keywords)) \o "\n"
       IN  IF headClosingIndex = 0 THEN st
           ELSE [st EXCEPT
                   !.html = SubSeq(st.html, 1, headClosingIndex - 1) \o text
                              \o SubSeq(st.html, headClosingIndex, Len(st.html)),
                   !.writes = Append(@, [tag |-> "keywords", mode |-> "insert",
                                         value |-> seoData.keywords,
                                         text |-> text])],
  st0)

\* The substitutions in source order: StepN is the substitution state after
\* steps 1 to N.
Step1Title(html, seoData) ==
  ReplaceTitleStep([html |-> html, threw |-> FALSE, writes |-> <<>>], seoData)

Step2Description(html, seoData) ==
  ReplaceTagStep(Step1Title(html, seoData), seoData, "description", TRUE,
                 "<meta", "name=\"description\"", "content=\"", "description")

Step3OgTitle(html, seoData) ==
  ReplaceTagStep(Step2Description(html, seoData), seoData, "og:title", FALSE,
                 "<meta", "property=\"og:title\"", "content=\"", "ogTitle")

Step4OgDescription(html, seoData) ==
  ReplaceTagStep(Step3OgTitle(html, seoData), seoData, "og:description", FALSE,
                 "<meta", "property=\"og:description\"", "content=\"",
                 "ogDescription")

Step5Keywords(html, seoData) ==
  KeywordsStep(Step4OgDescription(html, seoData), seoData)

Step6TwitterTitle(html, seoData) ==
  ReplaceTagStep(Step5Keywords(html, seoData), seoData, "twitter:title", FALSE,
                 "<meta", "name=\"twitter:title\"", "content=\"", "ogTitle")

Step7TwitterDescription(html, seoData) ==
  ReplaceTagStep(Step6TwitterTitle(html, seoData), seoData,
                 "twitter:description", FALSE, "<meta",
                 "name=\"twitter:description\"", "content=\"", "ogDescription")

Step8OgImage(html, seoData) ==
  ReplaceTagStep(Step7TwitterDescription(html, seoData), seoData, "og:image",
                 FALSE, "<meta", "property=\"og:image\"", "content=\"",
                 "ogImage")

Step9Canonical(html, seoData) ==
  ReplaceTagStep(Step8OgImage(html, seoData), seoData, "canonical", FALSE,
                 "<link", "rel=\"canonical\"", "href=\"", "canonicalUrl")

\* the nine substitutions of injectMetaTags
ApplyTags(html, seoData) == Step9Canonical(html, seoData)

(***************************************************************************)
(* Documents, paths and base URLs the operations are exercised on          *)
(***************************************************************************)

\* the shipped shape: every tag present, name before content, self-closing
DocStandard ==
  "<html><head>\n<title>uni10</title>\n"
    \o "<meta name=\"description\" content=\"Shop\" />\n"
    \o "<meta property=\"og:title\" content=\"uni10\" />\n"
    \o "<meta property=\"og:description\" content=\"Shop\" />\n"
    \o "<meta name=\"twitter:title\" content=\"uni10\" />\n"
    \o "<meta name=\"twitter:description\" content=\"Shop\" />\n"
    \o "<meta property=\"og:image\" content=\"/logo.png\" />\n"
    \o "<link rel=\"canonical\" href=\"https://uni10.in/\" />\n"
    \o "</head><body><div id=\"root\"></div></body></html>"

\* a title and nothing else
DocMinimal == "<html><head><title>uni10</title></head><body></body></html>"

\* a keywords tag is present; tags are not self-closing
DocKeywords ==
  "<head><title>t</title><meta name=\"description\" content=\"d\">"
    \o "<meta name=\"keywords\" content=\"k\"></head>"

\* upper-case tag and attribute names
DocUpper ==
  "<head><title>t</title><META NAME=\"DESCRIPTION\" CONTENT=\"d\">"
    \o "<META NAME=\"KEYWORDS\" CONTENT=\"k\">"
    \o "<META PROPERTY=\"OG:TITLE\" CONTENT=\"o\"></head>"

\* content before name
DocReversed ==
  "<head><title>t</title><meta content=\"d\" name=\"description\">"
    \o "<meta content=\"o\" property=\"og:title\">"
    \o "<link href=\"/\" rel=\"canonical\"></head>"

\* two tags of a kind
DocTwice ==
  "<head><title>a</title><meta name=\"description\" content=\"1\">"
    \o "<meta name=\"description\"\n  content=\"2\"/><title>b</title>"
    \o "<meta property=\"og:image\" content=\"1\">"
    \o "<meta property=\"og:image\" content=\"2\"></head>"

\* no closing head tag
DocFragment == "<title>x</title><p class=\"a\">hi</p>"

Docs == {DocStandard, DocMinimal, DocKeywords, DocUpper, DocReversed,
         DocTwice, DocFragment}

Paths == {"/", "/about", "/products", "/products/", "/products//x",
          "/products/?q=1", "/Products/bare", "/products/blue-mug",
          "/products/bare/reviews", "/products/deal?ref=1", "/products/id2",
          "/products/nope", "/api/products/bare", "/uploads/a.png"}

\* injectMetaTags' default baseUrl
DefaultBaseUrl == "https://uni10.in"

(***************************************************************************)
(* Bounds                                                                  *)
(***************************************************************************)

\* concurrent invocations (requests in flight)
NCalls == 2

\* how many times injectMetaTags is run on its own output
MaxRuns == 3

Calls == 1..NCalls

(***************************************************************************)
(* State                                                                   *)
(***************************************************************************)

VARIABLES
  inj,              \* per invocation of injectMetaTags: its frame
  cachedIndexHtml,  \* the module-level template cache; "" stands for null
  disk,             \* index.html on disk: [readable, content]
  fileReads,        \* calls of fs.readFileSync so far
  cacheWrites,      \* assignments to cachedIndexHtml so far
  res,              \* per request: what the middleware did to res and next
  hook              \* the dev-server transformIndexHtml invocation

vars == <<inj, cachedIndexHtml, disk, fileReads, cacheWrites, res, hook>>

\* a frame of injectMetaTags before the call
IdleCall ==
  [pc |-> "idle", html0 |-> "", pathname |-> "", baseUrl |-> "", slug |-> "",
   lookups |-> <<>>, results |-> <<>>, found |-> "", html |-> "",
   caught |-> FALSE,
   rejected |-> FALSE, writes |-> <<>>, run |-> 0, prev |-> <<>>]

\* res and next of a request nothing has touched yet
FreshRes ==
  [nextCalls |-> 0, statusCode |-> 0, headers |-> {}, sends |-> 0,
   body |-> "", errors |-> 0]

IdleHook ==
  [pc |-> "idle", variant |-> "", html0 |-> "", path |-> "", slug |-> "",
   outcome |-> "", html |-> "", warned |-> FALSE, propagated |-> FALSE]

(***************************************************************************)
(* injectMetaTags                                                          *)
(***************************************************************************)

\* Product.findOne({ slug }) settles with a product, with null or by throwing
FindOneOutcomes(slug) ==
  {"throw"} \cup
    (IF \E k \in ProductKeys : Catalog[k].slug = slug
     THEN {k \in ProductKeys : Catalog[k].slug = slug} ELSE {"null"})

\* Product.findById(slug) likewise
FindByIdOutcomes(id) ==
  {"throw"} \cup
    (IF \E k \in ProductKeys : Catalog[k].id = id
     THEN {k \in ProductKeys : Catalog[k].id = id} ELSE {"null"})

\* from the call to the first await: no slug returns html at once, a slug
\* issues Product.findOne
injectMetaTagsEnter(call, html, pathname, baseUrl) ==
  LET slug == extractProductSlug(pathname)
      c0 == [call EXCEPT !.html0 = html, !.html = html, !.pathname = pathname,
                         !.baseUrl = baseUrl, !.slug = slug, !.lookups = <<>>,
                         !.results = <<>>, !.found = "", !.caught = FALSE, !.rejected = FALSE,
                         !.writes = <<>>]
  IN  IF slug = "" THEN [c0 EXCEPT !.pc = "done"]
      ELSE [c0 EXCEPT !.pc = "findOne", !.lookups = <<"findOne">>]

\* a product was found: generate the tag-set and apply the substitutions;
\* the catch block returns the local variable html
injectWithProduct(call, k, gen) ==
  IF gen = "throw"
  THEN [call EXCEPT !.pc = "done", !.found = k, !.caught = TRUE]
  ELSE Once(LAMBDA st : [call EXCEPT !.pc = "done", !.found = k,
                                     !.html = st.html, !.caught = st.threw,
                                     !.writes = st.writes],
            ApplyTags(call.html,
                      generateProductSeoTags(Catalog[k], call.baseUrl)))

\* injectAfterFindOne that goes on to Product.findById whatever findOne
\* returned
injectAfterFindOneAlwaysById(call, outcome, gen) ==
  IF outcome = "throw"
  THEN [call EXCEPT !.pc = "done", !.caught = TRUE,
                    !.results = Append(@, outcome)]
  ELSE [call EXCEPT !.pc = "findById", !.results = Append(@, outcome),
                    !.lookups = Append(@, "findById")]

\* the continuation of `await Product.findOne({ slug })`
injectAfterFindOne(call, outcome, gen) ==
  CASE outcome = "throw" -> [call EXCEPT !.pc = "done", !.caught = TRUE,
                                         !.results = Append(@, outcome)]
    [] outcome = "null"  -> [call EXCEPT !.pc = "findById",
                                         !.results = Append(@, outcome),
                                         !.lookups = Append(@, "findById")]
    [] OTHER             -> injectWithProduct(
                              [call EXCEPT !.results = Append(@, outcome)],
                              outcome, gen)

\* the continuation of `await Product.findById(slug)`
injectAfterFindById(call, outcome, gen) ==
  CASE outcome = "throw" -> [call EXCEPT !.pc = "done", !.caught = TRUE,
                                         !.results = Append(@, outcome)]
    [] outcome = "null"  -> [call EXCEPT !.pc = "done",
                                         !.results = Append(@, outcome)]
    [] OTHER             -> injectWithProduct(
                              [call EXCEPT !.results = Append(@, outcome)],
                              outcome, gen)

(***************************************************************************)
(* Template cache and HTTP middleware                                      *)
(***************************************************************************)

\* req.protocol and req.get('host') of the requests
ReqProtocol == "https"
ReqHost == "uni10.in"

\* getIndexHtml without the test of the cache: every call reads the file
\* and assigns the cache
getIndexHtmlNoCache(cache, d) ==
  IF d.readable
  THEN [html |-> d.content, cache |-> d.content, read |-> 1, wrote |-> 1,
        errors |-> 0]
  ELSE [html |-> "", cache |-> cache, read |-> 1, wrote |-> 0, errors |-> 1]

\* getIndexHtml(): the value returned, the cache afterwards, whether
\* readFileSync was called and whether cachedIndexHtml was assigned.  The
\* guard is a truthiness test, so an empty string in the cache reads as no
\* cache at all.
getIndexHtml(cache, d) ==
  IF cache # ""
  THEN [html |-> cache, cache |-> cache, read |-> 0, wrote |-> 0, errors |-> 0]
  ELSE IF d.readable
       THEN [html |-> d.content, cache |-> d.content, read |-> 1, wrote |-> 1,
             errors |-> 0]
       ELSE [html |-> "", cache |-> cache, read |-> 1, wrote |-> 0,
             errors |-> 1]

\* seoMetaInjectionMiddleware with `next()` not returned: the API request
\* is passed on and served as well
seoMetaInjectionMiddlewareNoReturn(call, r, path, cache, d) ==
  LET g == getIndexHtml(cache, d)
      n == IF StartsWith(path, "/api") \/ StartsWith(path, "/uploads")
           THEN 1 ELSE 0
  IN  IF g.html = ""
      THEN [call  |-> [call EXCEPT !.pc = "responded", !.pathname = path],
            res   |-> [r EXCEPT !.nextCalls = @ + n, !.statusCode = 500,
                                !.sends = @ + 1,
                                !.body = "Internal Server Error",
                                !.errors = @ + g.errors],
            cache |-> g.cache, read |-> g.read, wrote |-> g.wrote]
      ELSE [call  |-> injectMetaTagsEnter(call, g.html, path,
                                          ReqProtocol \o "://" \o ReqHost),
            res   |-> [r EXCEPT !.nextCalls = @ + n],
            cache |-> g.cache, read |-> g.read, wrote |-> g.wrote]

\* seoMetaInjectionMiddleware up to `await injectMetaTags(...)`
seoMetaInjectionMiddleware(call, r, path, cache, d) ==
  IF StartsWith(path, "/api") \/ StartsWith(path, "/uploads")
  THEN [call  |-> [call EXCEPT !.pc = "passed", !.pathname = path],
        res   |-> [r EXCEPT !.nextCalls = @ + 1],
        cache |-> cache, read |-> 0, wrote |-> 0]
  ELSE LET g == getIndexHtml(cache, d)
       IN  IF g.html = ""
           THEN [call  |-> [call EXCEPT !.pc = "responded", !.pathname = path],
                 res   |-> [r EXCEPT !.statusCode = 500, !.sends = @ + 1,
                                    !.body = "Internal Server Error",
                                    !.errors = @ + g.errors],
                 cache |-> g.cache, read |-> g.read, wrote |-> g.wrote]
           ELSE [call  |-> injectMetaTagsEnter(call, g.html, path,
                                               ReqProtocol \o "://" \o ReqHost),
                 res   |-> r, cache |-> g.cache, read |-> g.read,
                 wrote |-> g.wrote]

\* seoMetaInjectionMiddleware after the await: headers and send, or the
\* catch block when injectMetaTags rejected
middlewareRespond(call, r) ==
  IF call.rejected
  THEN [r EXCEPT !.statusCode = 500, !.sends = @ + 1,
                 !.body = "Internal Server Error", !.errors = @ + 1]
  ELSE [r EXCEPT !.headers = @ \cup
                    {<<"Content-Type", "text/html; charset=UTF-8">>,
                     <<"Cache-Control", "public, max-age=0, must-revalidate">>},
                 !.statusCode = 200, !.sends = @ + 1, !.body = call.html]

(***************************************************************************)
(* Dev-server hook transformIndexHtml                                      *)
(***************************************************************************)

\* the two hooks: native fetch with in-place replacement, axios with insertion
HookVariants == {"fetch", "axios"}

\* how the GET /api/products/{slug} call can fail
LookupFailures == {"timeout", "network", "status", "badjson", "nulldata"}

\* how the call settles: a failure, or { data: product }
HookOutcomes(slug) ==
  LookupFailures \cup {k \in ProductKeys : Catalog[k].slug = slug}

\* the base URL the hooks pass to the generator
DevBaseUrl == "http://localhost:8080"

\* steps 1 to 5 of the fetch hook
ApplyTagsDev(html, seoData) == Step5Keywords(html, seoData)

\* html.replace('</head>', metaTags + '</head>') of the axios hook
InsertBlock(html, seoData) ==
  LET i == IndexOf(html, "</head>")
  IN  ReplaceAt(html, i, i + 7, createMetaTagsHtml(seoData) \o "</head>")

\* does the lookup call of a variant throw on this outcome?  fetch rejects
\* on timeout and network failure and response.json() on malformed JSON;
\* axios rejects on timeout, network failure and a non-2xx status, and hands
\* over an unparsable body as a string
LookupThrows(variant, outcome) ==
  IF variant = "fetch" THEN outcome \in {"timeout", "network", "badjson"}
  ELSE outcome \in {"timeout", "network", "status"}

\* transformIndexHtml up to the await of the lookup call
transformIndexHtmlEnter(h, variant, html, path) ==
  LET slug == extractProductSlug(path)
  IN  [h EXCEPT !.variant = variant, !.html0 = html, !.html = html,
                !.path = path, !.slug = slug,
                !.pc = IF slug = "" THEN "done" ELSE "fetching"]

\* transformIndexHtml without its try/catch: a throwing lookup propagates
transformIndexHtmlNoCatch(h, outcome) ==
  IF LookupThrows(h.variant, outcome)
  THEN [h EXCEPT !.pc = "done", !.outcome = outcome, !.propagated = TRUE]
  ELSE [h EXCEPT !.pc = "done", !.outcome = outcome]

\* transformIndexHtml after the lookup call settled
transformIndexHtml(h, outcome) ==
  IF LookupThrows(h.variant, outcome)
  THEN [h EXCEPT !.pc = "done", !.outcome = outcome, !.warned = TRUE]
  ELSE IF outcome \in LookupFailures
  THEN [h EXCEPT !.pc = "done", !.outcome = outcome]
  ELSE IF h.variant = "fetch"
  THEN Once(LAMBDA st : [h EXCEPT !.pc = "done", !.outcome = outcome,
                                  !.html = st.html, !.warned = st.threw],
            ApplyTagsDev(h.html,
                         generateProductSeoTags(Catalog[outcome], DevBaseUrl)))
  ELSE [h EXCEPT !.pc = "done", !.outcome = outcome,
                 !.html = InsertBlock(h.html,
                            generateProductSeoTags(Catalog[outcome], DevBaseUrl))]

(***************************************************************************)
(* Actions                                                                 *)
(***************************************************************************)

\* the paths requests are made with
MwPaths == {"/about", "/api/products/bare", "/uploads/a.png", "/apiary",
            "/products/blue-mug", "/products/id2", "/products/nope"}

\* the states of index.html on disk
Disks == {[readable |-> TRUE, content |-> DocStandard],
          [readable |-> TRUE, content |-> DocUpper],
          [readable |-> TRUE, content |-> ""],
          [readable |-> FALSE, content |-> ""]}

Init ==
  /\ inj = [c \in Calls |-> IdleCall]
  /\ cachedIndexHtml = ""
  /\ disk \in Disks
  /\ fileReads = 0
  /\ cacheWrites = 0
  /\ res = [c \in Calls |-> FreshRes]
  /\ hook = IdleHook

\* a direct call injectMetaTags(html, pathname) of the exported function
InjectCall(c, html, pathname) ==
  /\ inj[c].pc = "idle"
  /\ inj' = [inj EXCEPT ![c] = injectMetaTagsEnter([@ EXCEPT !.run = 1], html,
                                                   pathname, DefaultBaseUrl)]
  /\ UNCHANGED <<cachedIndexHtml, disk, fileReads, cacheWrites, res, hook>>

\* injectMetaTags called again on the document it returned
Reinject(c) ==
  /\ inj[c].pc = "done"
  /\ inj[c].run >= 1
  /\ inj[c].run < MaxRuns
  /\ inj' = [inj EXCEPT ![c] =
               injectMetaTagsEnter(
                 [@ EXCEPT !.run = @ + 1,
                           !.prev = <<[html0 |-> inj[c].html0,
                                       html |-> inj[c].html,
                                       found |-> inj[c].found,
                                       caught |-> inj[c].caught]>>],
                 inj[c].html, inj[c].pathname, inj[c].baseUrl)]
  /\ UNCHANGED <<cachedIndexHtml, disk, fileReads, cacheWrites, res, hook>>

\* Product.findOne settles
FindOneSettles(c) ==
  /\ inj[c].pc = "findOne"
  /\ \E outcome \in FindOneOutcomes(inj[c].slug), gen \in {"ok", "throw"} :
       inj' = [inj EXCEPT ![c] = injectAfterFindOne(@, outcome, gen)]
  /\ UNCHANGED <<cachedIndexHtml, disk, fileReads, cacheWrites, res, hook>>

\* Product.findById settles
FindByIdSettles(c) ==
  /\ inj[c].pc = "findById"
  /\ \E outcome \in FindByIdOutcomes(inj[c].slug), gen \in {"ok", "throw"} :
       inj' = [inj EXCEPT ![c] = injectAfterFindById(@, outcome, gen)]
  /\ UNCHANGED <<cachedIndexHtml, disk, fileReads, cacheWrites, res, hook>>

\* a request reaches the middleware
Request(c, path) ==
  /\ inj[c].pc = "idle"
  /\ LET m == seoMetaInjectionMiddleware(inj[c], res[c], path,
                                         cachedIndexHtml, disk)
     IN  /\ inj' = [inj EXCEPT ![c] = m.call]
         /\ res' = [res EXCEPT ![c] = m.res]
         /\ cachedIndexHtml' = m.cache
         /\ fileReads' = fileReads + m.read
         /\ cacheWrites' = cacheWrites + m.wrote
  /\ UNCHANGED <<disk, hook>>

\* the middleware resumes after `await injectMetaTags` and responds
Respond(c) ==
  /\ inj[c].pc = "done"
  /\ inj[c].run = 0
  /\ inj' = [inj EXCEPT ![c].pc = "responded"]
  /\ res' = [res EXCEPT ![c] = middlewareRespond(inj[c], @)]
  /\ UNCHANGED <<cachedIndexHtml, disk, fileReads, cacheWrites, hook>>

\* the dev server calls the hook
HookCall(variant, html, path) ==
  /\ hook.pc = "idle"
  /\ hook' = transformIndexHtmlEnter(hook, variant, html, path)
  /\ UNCHANGED <<inj, cachedIndexHtml, disk, fileReads, cacheWrites, res>>

\* the lookup call of the hook settles
HookSettles ==
  /\ hook.pc = "fetching"
  /\ \E outcome \in HookOutcomes(hook.slug) :
       hook' = transformIndexHtml(hook, outcome)
  /\ UNCHANGED <<inj, cachedIndexHtml, disk, fileReads, cacheWrites, res>>

(***************************************************************************)
(* Specifications                                                          *)
(***************************************************************************)

\* direct calls of injectMetaTags, the result fed back in
Next ==
  \/ \E html \in Docs, pathname \in Paths : InjectCall(1, html, pathname)
  \/ FindOneSettles(1)
  \/ FindByIdSettles(1)
  \/ Reinject(1)

Spec == Init /\ [][Next]_vars

\* requests through the middleware, interleaved at the awaits
NextMw ==
  \/ \E c \in Calls, path \in MwPaths : Request(c, path)
  \/ \E c \in Calls : FindOneSettles(c)
  \/ \E c \in Calls : FindByIdSettles(c)
  \/ \E c \in Calls : Respond(c)

SpecMw == Init /\ [][NextMw]_vars

\* the dev-server hook
NextHook ==
  \/ \E variant \in HookVariants, html \in Docs,
        path \in {"/about", "/products/blue-mug", "/products/bare",
                  "/products/deal", "/products/nope"} :
       HookCall(variant, html, path)
  \/ HookSettles

SpecHook == Init /\ [][NextHook]_vars

(***************************************************************************)
(* Properties                                                              *)
(***************************************************************************)

\* number of occurrences of lit in s
CountOcc(s, lit) == Cardinality({i \in 1..Len(s) : MatchLit(s, i, lit, FALSE)})

\* a path of the shape /products/<id>: it starts with "/products/" followed
\* by at least one character other than "/" and "?"
IsProductPath(p) ==
  /\ Len(p) >= 11
  /\ SubSeq(p, 1, 10) = "/products/"
  /\ CharAt(p, 11) \notin {"/", "?"}

\* the invocation has been entered (its frame holds a call)
Entered(c) == inj[c].pc \in {"findOne", "findById", "done"}

\* C1: for a path that is not a product path extractProductSlug returns no
\* slug, and injectMetaTags then returns its html argument unchanged at once,
\* without calling Product.findOne or Product.findById.
C1_NoSlugIsIdentity ==
  \A c \in Calls :
    Entered(c) =>
      /\ (inj[c].slug = "") <=> ~IsProductPath(inj[c].pathname)
      /\ ~IsProductPath(inj[c].pathname) =>
           /\ inj[c].pc = "done"
           /\ inj[c].html = inj[c].html0
           /\ inj[c].lookups = <<>>
           /\ inj[c].results = <<>>

\* a call with a path that starts with /products/ but has no identifier
\* has returned the standard template
C1_Witness ==
  /\ inj[1].pc = "done"
  /\ inj[1].pathname = "/products//x"
  /\ inj[1].html0 = DocStandard
  /\ inj[1].html = DocStandard

C3_SlugThenId ==
  \A c \in Calls :
    Entered(c) =>
      /\ inj[c].lookups \in {<<>>, <<"findOne">>, <<"findOne", "findById">>}
      /\ Len(inj[c].results) <= Len(inj[c].lookups)
      /\ (Len(inj[c].lookups) = 2) <=>
           (Len(inj[c].results) >= 1 /\ inj[c].results[1] = "null")
      /\ inj[c].slug # "" => Len(inj[c].lookups) >= 1
      /\ (inj[c].pc = "done" /\ inj[c].results = <<"null", "null">>) =>
           /\ inj[c].html = inj[c].html0
           /\ inj[c].writes = <<>>
           /\ inj[c].found = ""

\* both lookups were made for /products/nope, both returned null
C3_Witness ==
  /\ inj[1].pc = "done"
  /\ inj[1].pathname = "/products/nope"
  /\ inj[1].lookups = <<"findOne", "findById">>
  /\ inj[1].results = <<"null", "null">>
  /\ inj[1].html0 = DocStandard

\* injectMetaTags found a product and returned without catching an error
Injected(c) == inj[c].pc = "done" /\ inj[c].found # "" /\ ~inj[c].caught

\* the tag-set the invocation generated
SeoDataOf(c) == generateProductSeoTags(Catalog[inj[c].found], inj[c].baseUrl)

\* Reading a document as HTML: the starts of the tags named open ...
TagStarts(doc, open) ==
  {i \in 1..Len(doc) : /\ CharAt(doc, i) = "<"
                       /\ MatchLit(doc, i, open, TRUE)
                       /\ CharAt(doc, i + Len(open)) \in WhiteSpace}

\* ... the text of the tag that starts at i, up to its > ...
TagText(doc, i) ==
  LET e == SkipNot(doc, i, ">")
  IN  SubSeq(doc, i, IF e > Len(doc) THEN Len(doc) ELSE e)

\* ... and the tags that have the attribute attr, in any letter case and at
\* any place among the attributes
TagsOfKind(doc, open, attr) ==
  {i \in TagStarts(doc, open) : Includes(LowerStr(TagText(doc, i)), attr)}

\* the texts of all tags of a kind but the first
LaterTags(doc, K) == {<<Cardinality({j \in K : j < i}), TagText(doc, i)>> :
                        i \in K \ {MinOf(K)}}

\* C4 (as claimed): running injectMetaTags on its own output, with the same
\* path and the same product found, returns that document unchanged, and
\* never inserts a second keywords tag.
C4_Idempotent ==
  \A c \in Calls :
    (/\ Injected(c)
     /\ inj[c].run >= 2
     /\ inj[c].prev[1].found = inj[c].found
     /\ ~inj[c].prev[1].caught) =>
      /\ inj[c].html = inj[c].prev[1].html
      /\ \A i \in 1..Len(inj[c].writes) : inj[c].writes[i].mode # "insert"

\* the number of raw double quotes a replacement string may hold: those of
\* its template
TemplateQuotes(tag) == IF tag = "title" THEN 0 ELSE 4

\* the values of these writes hold no replacement pattern
Plain(writes) ==
  \A i \in 1..Len(writes) : ~Includes(writes[i].value, "$")

\* the raw double quotes the title substitution removed from the document
TitleQuotes(doc, writes) ==
  IF (\E i \in 1..Len(writes) : writes[i].tag = "title") /\ TitleSearch(doc) # 0
  THEN CountOcc(SubSeq(doc, TitleSearch(doc),
                       TitleMatchEnd(doc, TitleSearch(doc)) - 1), "\"")
  ELSE 0

C6_DescriptionReplaced ==
  \A c \in Calls :
    (Injected(c) /\ inj[c].run = 1) =>
      LET K0 == {i \in TagsOfKind(inj[c].html0, "<meta", "name=\"description\"") :
                   Includes(LowerStr(TagText(inj[c].html0, i)), "content=\"")}
          K1 == TagsOfKind(inj[c].html, "<meta", "name=\"description\"")
      IN  K0 # {} =>
            /\ K1 # {}
            /\ TagText(inj[c].html, MinOf(K1)) =
                 TagTemplate("<meta", "name=\"description\"", "content=\"",
                             EscapeQuotes(SeoDataOf(c).description))
            /\ LaterTags(inj[c].html, K1) = LaterTags(inj[c].html0, K0)

\* the tags of the conditional-replace policy: tag name, the attribute that
\* identifies them, the attribute that carries the value, the tag-set field
ConditionalTags ==
  {<<"<meta", "property=\"og:title\"", "content=\"", "ogTitle">>,
   <<"<meta", "property=\"og:description\"", "content=\"", "ogDescription">>,
   <<"<meta", "name=\"twitter:title\"", "content=\"", "ogTitle">>,
   <<"<meta", "name=\"twitter:description\"", "content=\"", "ogDescription">>,
   <<"<meta", "property=\"og:image\"", "content=\"", "ogImage">>,
   <<"<link", "rel=\"canonical\"", "href=\"", "canonicalUrl">>}

\* C7 (as claimed): for og:title, og:description, twitter:title,
\* twitter:description, og:image and the canonical link: if the input has a
\* tag with the matching attribute, the first such tag carries the generated
\* value afterwards; if it has none, none is inserted; the number of such
\* tags is the same before and after.
C7_ConditionalReplace ==
  \A c \in Calls :
    (Injected(c) /\ inj[c].run = 1) =>
      \A t \in ConditionalTags :
        LET K0 == TagsOfKind(inj[c].html0, t[1], t[2])
            K1 == TagsOfKind(inj[c].html, t[1], t[2])
        IN  /\ Cardinality(K1) = Cardinality(K0)
            /\ K0 # {} =>
                 Includes(TagText(inj[c].html, MinOf(K1)),
                          t[3] \o EscapeQuotes(SeoDataOf(c)[t[4]]) \o "\"")

\* C8 (as claimed): with a non-empty keywords value, a document that has a
\* meta keywords tag in any letter case gets that tag replaced and no tag
\* added; a document without one gets exactly one keywords tag, indented
\* with four spaces, right before </head>.  With an empty keywords value the
\* keywords tags are left as they are.
C8_Keywords ==
  \A c \in Calls :
    (Injected(c) /\ inj[c].run = 1) =>
      LET K0 == TagsOfKind(inj[c].html0, "<meta", "name=\"keywords\"")
          K1 == TagsOfKind(inj[c].html, "<meta", "name=\"keywords\"")
          kw == SeoDataOf(c).keywords
          tag == TagTemplate("<meta", "name=\"keywords\"", "content=\"",
                             EscapeQuotes(kw))
      IN  IF ~Truthy(SeoDataOf(c), "keywords")
          THEN {TagText(inj[c].html, i) : i \in K1}
                 = {TagText(inj[c].html0, i) : i \in K0}
               /\ Cardinality(K1) = Cardinality(K0)
          ELSE IF K0 # {}
          THEN /\ Cardinality(K1) = Cardinality(K0)
               /\ TagText(inj[c].html, MinOf(K1)) = tag
          ELSE Includes(inj[c].html0, "</head>") =>
                 /\ Cardinality(K1) = 1
                 /\ Includes(inj[c].html, "    " \o tag \o "\n</head>")

IsApiPath(p) ==
  \/ Len(p) >= 4 /\ SubSeq(p, 1, 4) = "/api"
  \/ Len(p) >= 8 /\ SubSeq(p, 1, 8) = "/uploads"

\* getIndexHtml has no template to return
TemplateUnavailable == ~disk.readable \/ disk.content = ""

\* the headers of a served document
HtmlHeaders ==
  {<<"Content-Type", "text/html; charset=UTF-8">>,
   <<"Cache-Control", "public, max-age=0, must-revalidate">>}

\* C10: a request to /api... or /uploads... is passed to next() and res is
\* not touched; any other request gets a 500 when the template is
\* unavailable, and otherwise the document injectMetaTags returned, sent
\* once with status 200 and the Content-Type and Cache-Control headers.
\* next() and a send never both happen and nothing is sent twice.
C10_OneOutcome ==
  \A c \in Calls :
    LET f == inj[c]
        r == res[c]
    IN  /\ r.nextCalls + r.sends <= 1
        /\ f.pc = "idle" => r = FreshRes
        /\ (f.pc # "idle" /\ IsApiPath(f.pathname)) =>
             /\ f.pc = "passed"
             /\ r = [FreshRes EXCEPT !.nextCalls = 1]
        /\ (f.pc # "idle" /\ ~IsApiPath(f.pathname)) =>
             /\ r.nextCalls = 0
             /\ f.pc # "passed"
             /\ (f.pc = "responded") <=> (r.sends = 1)
             /\ TemplateUnavailable =>
                  /\ f.pc = "responded"
                  /\ r.statusCode = 500
                  /\ r.headers = {}
             /\ (~TemplateUnavailable /\ r.sends = 1) =>
                  /\ r.statusCode = 200
                  /\ r.headers = HtmlHeaders
                  /\ r.body = f.html
             /\ r.sends = 0 => r = FreshRes

\* one request was passed to next(), another was answered with a document
\* carrying the tags of the product
C10_Witness ==
  \E c, d \in Calls :
    /\ inj[c].pc = "passed"
    /\ res[c].nextCalls = 1
    /\ inj[d].pc = "responded"
    /\ inj[d].found = "mug"
    /\ res[d].statusCode = 200
    /\ res[d].sends = 1
    /\ res[d].body # disk.content

\* the requests that went through getIndexHtml
Served == {c \in Calls : inj[c].pc \notin {"idle", "passed"}}

\* C11 as stated: whatever index.html is, readFileSync is called at most
\* once and cachedIndexHtml is assigned at most once in the process, and
\* every request that got a template started from the cached string.
C11_ReadOnce ==
  /\ fileReads <= 1
  /\ cacheWrites <= 1
  /\ \A c \in Served : inj[c].html0 # "" => inj[c].html0 = cachedIndexHtml

\* C11: when index.html is readable and not empty, the first request that
\* is not passed on reads it and assigns the cache, once; no later request
\* reads the file or assigns the cache, and every request starts the
\* injection from the content of the file, whatever other requests have
\* injected.  When index.html is unreadable or empty the cache never holds a
\* template and every such request reads the file again (and, for an empty
\* file, assigns the empty string again).
C11_ReadOnceWhenLoaded ==
  /\ cachedIndexHtml \in {"", disk.content}
  /\ ~TemplateUnavailable =>
       /\ fileReads = (IF Served = {} THEN 0 ELSE 1)
       /\ cacheWrites = fileReads
       /\ cachedIndexHtml = (IF Served = {} THEN "" ELSE disk.content)
       /\ \A c \in Served : inj[c].html0 = disk.content
  /\ TemplateUnavailable =>
       /\ cachedIndexHtml = ""
       /\ fileReads = Cardinality(Served)
       /\ cacheWrites = (IF disk.readable THEN fileReads ELSE 0)
       /\ \A c \in Served : inj[c].html0 = ""

\* one request was answered with the tags of a product injected, another
\* then started from the template as it is on disk, and the file was read
\* once
C11_Witness ==
  \E c, d \in Calls :
    /\ c # d
    /\ inj[c].pc = "responded"
    /\ inj[c].found = "mug"
    /\ res[c].body # disk.content
    /\ inj[d].pc \notin {"idle", "passed"}
    /\ inj[d].html0 = disk.content
    /\ cachedIndexHtml = disk.content
    /\ disk.content # ""
    /\ fileReads = 1
    /\ cacheWrites = 1
====
